---- MODULE Spec2Model ----
(***************************************************************************)
(* Model of quant_finance_service.py: the three request handlers           *)
(* get_stock_data, analyze_portfolio and ai_financial_advice.              *)
(*                                                                         *)
(* A Python str is a sequence of one-character strings.  A Python value    *)
(* is a record [t |-> type name, v |-> text]: for a str v is the string    *)
(* itself, for any other type it is the value's repr.  Money amounts are   *)
(* integers in cents; a DataFrame is the sequence of its Close column.     *)
(* The two external collaborators (yfinance, the HTTP endpoint) answer     *)
(* nondeterministically with every outcome their interface allows.         *)
(***************************************************************************)
EXTENDS Integers, Sequences, FiniteSets

VARIABLES
    pc,             \* "idle" | "loop" | "format" | "post" | "done"
    handler,        \* the handler being run, "none" when idle
    arg,            \* the handler's first argument (symbol, symbols, query)
    idx,            \* analyze_portfolio: number of list elements consumed
    portfolio_data, \* analyze_portfolio: the dict, as its ordered items
    fetched,        \* the yfinance calls of this invocation and what each
                    \* gave the handler, in order
    fetch_failed,   \* TRUE when the latest retrieval went wrong
    posts,          \* the HTTP POSTs sent by this invocation
    response,       \* ai_financial_advice: how the POST ended
    result          \* the value returned to the caller

vars ==
    <<pc, handler, arg, idx, portfolio_data, fetched, fetch_failed, posts, response, result>>

----------------------------------------------------------------------------
(* Bounds of the model. *)

\* most elements of the symbols argument of analyze_portfolio
MaxSyms == 3
\* longest symbol argument of get_stock_data
MaxSymLen == 2
\* longest query of ai_financial_advice
MaxQueryLen == 2
\* cap on the POST counter
MaxPosts == 3

----------------------------------------------------------------------------
(* Strings. *)

RECURSIVE Repeat(_, _)
\* Python  s * n
Repeat(s, n) == IF n <= 0 THEN <<>> ELSE s \o Repeat(s, n - 1)

StartsWith(s, p) ==
    /\ Len(p) <= Len(s)
    /\ SubSeq(s, 1, Len(p)) = p

Contains(s, p) ==
    \E k \in 0..(Len(s) - Len(p)) : SubSeq(s, k + 1, k + Len(p)) = p

Count(s, c) == Cardinality({k \in 1..Len(s) : s[k] = c})

StringsOver(alphabet, n) == UNION {[1..k -> alphabet] : k \in 0..n}

IsSpace(c) == c \in {" ", "\t", "\n", "\r"}

RECURSIVE LStrip(_)
LStrip(s) ==
    IF s # <<>> /\ IsSpace(Head(s)) THEN LStrip(Tail(s)) ELSE s

RECURSIVE RStrip(_)
RStrip(s) ==
    IF s # <<>> /\ IsSpace(s[Len(s)]) THEN RStrip(SubSeq(s, 1, Len(s) - 1)) ELSE s

\* Python  s.strip()
Strip(s) == RStrip(LStrip(s))

RECURSIVE SplitAt(_, _)
SplitAt(s, sep) ==
    IF \A k \in 1..Len(s) : s[k] # sep
    THEN <<s>>
    ELSE LET k == CHOOSE j \in 1..Len(s) :
                      s[j] = sep /\ \A h \in 1..(j - 1) : s[h] # sep
         IN  <<SubSeq(s, 1, k - 1)>> \o SplitAt(SubSeq(s, k + 1, Len(s)), sep)

\* Python  symbols.split(',')
SplitComma(s) == SplitAt(s, ",")

Digit(d) == <<"0", "1", "2", "3", "4", "5", "6", "7", "8", "9">>[d + 1]

RECURSIVE Decimal(_)
\* the decimal digits of a natural number
Decimal(n) ==
    IF n < 10 THEN <<Digit(n)>> ELSE Decimal(n \div 10) \o <<Digit(n % 10)>>

Abs(x) == IF x < 0 THEN -x ELSE x

\* num/den (den > 0) rounded to the nearest integer, ties to even
RoundHalfEven(num, den) ==
    LET a == Abs(num)
        q == a \div den
        r == a % den
        up == (2 * r > den) \/ (2 * r = den /\ q % 2 = 1)
        m == IF up THEN q + 1 ELSE q
    IN  IF num < 0 THEN -m ELSE m

\* the digits of format spec .2f for a magnitude given in hundredths
Fixed2(h) == Decimal(h \div 100) \o <<".">> \o <<Digit((h % 100) \div 10), Digit(h % 10)>>

\* Python  f"{x:.2f}"  where num/den is x in hundredths
FormatF2(num, den) ==
    (IF num < 0 THEN <<"-">> ELSE <<>>) \o Fixed2(Abs(RoundHalfEven(num, den)))

\* Python  f"{x:+.2f}"  where num/den is x in hundredths
FormatSignedF2(num, den) ==
    (IF num < 0 THEN <<"-">> ELSE <<"+">>) \o Fixed2(Abs(RoundHalfEven(num, den)))

----------------------------------------------------------------------------
(* Python values and the literals of the source. *)

PyStr(s) == [t |-> "str", v |-> s]
PyInt42 == [t |-> "int", v |-> <<"4", "2">>]
PyNone == [t |-> "NoneType", v |-> <<"N", "o", "n", "e">>]
PyEmptyList == [t |-> "list", v |-> <<"[", "]">>]

StockPrefix == <<"S", "t", "o", "c", "k", " ", "d", "a", "t", "a", " ", "f", "o", "r", " ">>
StockErrorPrefix == <<"E", "r", "r", "o", "r", " ", "f", "e", "t", "c", "h", "i", "n", "g", " ", "d", "a", "t", "a", " ", "f", "o", "r", " ">>
PortfolioErrorPrefix == <<"E", "r", "r", "o", "r", " ", "a", "n", "a", "l", "y", "z", "i", "n", "g", " ", "p", "o", "r", "t", "f", "o", "l", "i", "o", ":", " ">>
PortfolioHeader == <<"P", "o", "r", "t", "f", "o", "l", "i", "o", " ", "A", "n", "a", "l", "y", "s", "i", "s", ":", "\n">>
AiPrefix == <<"A", "I", " ", "R", "e", "s", "p", "o", "n", "s", "e", ":", " ">>

SeparatorWidth == 50
\* "=" * 50 + "\n"
PortfolioSeparator == Repeat(<<"=">>, SeparatorWidth) \o <<"\n">>

----------------------------------------------------------------------------
(* The external collaborators. *)

\* texts of the exceptions the libraries raise
Messages == {<<>>, <<"t", "i", "m", "e", "d", " ", "o", "u", "t">>}

\* Close columns (cents) of the frames Ticker.history returns; <<>> is the
\* empty frame
Frames == {<<>>, <<10000>>, <<10000, 11000>>, <<11000, 10500, 9950>>}
QuoteFrames == Frames \cup {<<10000, 10100, 10200, 10300, 10400, 11000>>}

\* One call of yf.Ticker(symbol).history(period): it raises, or it returns a
\* frame.  failed tells that the retrieval itself went wrong (network
\* failure, unknown symbol, rate limiting); the library reports that either
\* by raising or by returning the empty frame.
OutcomesOver(frames) ==
    [kind : {"raise"}, msg : Messages, data : {<<>>}, failed : {TRUE}]
        \cup [kind : {"data"}, msg : {<<>>}, data : frames, failed : {FALSE}]
        \cup [kind : {"data"}, msg : {<<>>}, data : {<<>>}, failed : {TRUE}]

FetchOutcomes == OutcomesOver(Frames)

\* what one call gave the handler
Fetch(symbol, out) ==
    [symbol |-> symbol, kind |-> out.kind, msg |-> out.msg, data |-> out.data]
QuoteOutcomes == OutcomesOver(QuoteFrames)

StatusCodes == {200, 404, 500}

\* the decoded value of a 'response' field
JsonValues ==
    {PyStr(<<"D", "i", "v", "e", "r", "s", "i", "f", "y", ".">>), PyStr(<<>>),
     PyInt42, PyNone, PyEmptyList}

\* a response body: not JSON at all, a JSON value that is no object, or an
\* object with or without the 'response' field
Bodies ==
    [json : {"invalid", "array", "number", "string", "null"},
     has : {FALSE}, response : {PyNone}]
        \cup [json : {"object"}, has : {FALSE}, response : {PyNone}]
        \cup [json : {"object"}, has : {TRUE}, response : JsonValues]

NoBody == [json |-> "invalid", has |-> FALSE, response |-> PyNone]

\* no POST made yet
NoResponse == [kind |-> "none", status |-> 0, body |-> NoBody]

\* One requests.post: it raises, or it returns a response
PostOutcomes ==
    [kind : {"raise"}, status : {0}, body : {NoBody}]
        \cup [kind : {"response"}, status : StatusCodes, body : Bodies]

----------------------------------------------------------------------------
(* The inputs. *)

SymbolAlphabet == {"A", "B", " "}
StockSymbols == StringsOver(SymbolAlphabet, MaxSymLen)

\* the elements a symbols argument is joined from
Elements == {<<>>, <<"A">>, <<"B">>, <<" ", "A", " ">>}

RECURSIVE Join(_)
Join(es) ==
    IF Len(es) = 1 THEN es[1] ELSE es[1] \o <<",">> \o Join(Tail(es))

PortfolioInputs == {Join(es) : es \in UNION {[1..n -> Elements] : n \in 1..MaxSyms}}

QueryAlphabet == {"g", "?"}
Queries == StringsOver(QueryAlphabet, MaxQueryLen)

----------------------------------------------------------------------------
(* get_stock_data *)

\* pandas DataFrame.tail(): the last five rows
TailRows == 5
DataTail(data) ==
    IF Len(data) <= TailRows THEN data
    ELSE SubSeq(data, Len(data) - TailRows + 1, Len(data))

RECURSIVE RowsText(_)
RowsText(data) ==
    IF data = <<>> THEN <<>>
    ELSE <<"\n">> \o FormatF2(Head(data), 1) \o <<"0", "0", "0", "0">>
             \o RowsText(Tail(data))

\* DataFrame.to_string() of the Close column
FrameToString(data) ==
    IF data = <<>>
    THEN <<"E", "m", "p", "t", "y", " ", "D", "a", "t", "a", "F", "r", "a", "m", "e", "\n",
           "C", "o", "l", "u", "m", "n", "s", ":", " ", "[", "C", "l", "o", "s", "e", "]", "\n",
           "I", "n", "d", "e", "x", ":", " ", "[", "]">>
    ELSE <<"C", "l", "o", "s", "e">> \o RowsText(data)

\* faulty variant: the except branch reports without the symbol
StockErrorAnonymous(symbol, msg) == PyStr(StockErrorPrefix \o <<":", " ">> \o msg)

\* line 15
StockError(symbol, msg) == PyStr(StockErrorPrefix \o symbol \o <<":", " ">> \o msg)

\* line 13
StockReport(symbol, data) ==
    PyStr(StockPrefix \o symbol \o <<":", "\n">> \o FrameToString(DataTail(data)))

\* the value get_stock_data returns when the fetch ends with out
StockResult(symbol, out) ==
    IF out.kind = "raise" THEN StockError(symbol, out.msg)
    ELSE StockReport(symbol, out.data)

----------------------------------------------------------------------------
(* analyze_portfolio *)

\* faulty variant: the percentage is taken of the last close
EntryOverLast(data) ==
    LET first == data[1]
        last == data[Len(data)]
    IN  [current_price |-> last,
         change |-> last - first,
         change_pct |-> [num |-> (last - first) * 100, den |-> last]]

\* lines 26-30; change_pct is the fraction num/den
Entry(data) ==
    LET first == data[1]
        last == data[Len(data)]
    IN  [current_price |-> last,
         change |-> last - first,
         change_pct |-> [num |-> (last - first) * 100, den |-> first]]

HasKey(items, k) == \E j \in 1..Len(items) : items[j].key = k

\* faulty variant: an assignment to a key always adds an item
DictAppend(items, k, val) == Append(items, [key |-> k, val |-> val])

\* faulty variant: an assignment to a known key moves it to the end
DictMoveToEnd(items, k, val) ==
    Append(SelectSeq(items, LAMBDA it : it.key # k), [key |-> k, val |-> val])

\* portfolio_data[k] = val: a new key goes last, a known key keeps its place
DictSet(items, k, val) ==
    IF HasKey(items, k)
    THEN [j \in 1..Len(items) |->
             IF items[j].key = k THEN [key |-> k, val |-> val] ELSE items[j]]
    ELSE Append(items, [key |-> k, val |-> val])

\* faulty variant: empty frames are entered like the others
StoreAlways(items, symbol, data) ==
    DictSet(items, symbol,
            IF data = <<>>
            THEN [current_price |-> 0, change |-> 0, change_pct |-> [num |-> 0, den |-> 1]]
            ELSE Entry(data))

\* lines 25-30
Store(items, symbol, data) ==
    IF data # <<>> THEN DictSet(items, symbol, Entry(data)) ELSE items

\* lines 35-36
SummaryLine(item) ==
    item.key \o <<":", " ", "$">> \o FormatF2(item.val.current_price, 1) \o <<" ">>
        \o <<"(">> \o FormatSignedF2(item.val.change, 1) \o <<",", " ">>
        \o FormatSignedF2(item.val.change_pct.num * 100, item.val.change_pct.den)
        \o <<"%", ")", "\n">>

RECURSIVE SummaryLines(_)
SummaryLines(items) ==
    IF items = <<>> THEN <<>> ELSE SummaryLine(Head(items)) \o SummaryLines(Tail(items))

\* lines 32-38
Summary(items) == PyStr(PortfolioHeader \o PortfolioSeparator \o SummaryLines(items))

\* faulty variant: the except branch appends the error to the summary so far
PortfolioErrorAfterSummary(items, msg) ==
    PyStr(Summary(items).v \o PortfolioErrorPrefix \o msg)

\* line 40
PortfolioError(items, msg) == PyStr(PortfolioErrorPrefix \o msg)

\* the symbol the loop works on after n elements
SymbolAt(symbols, n) == Strip(SplitComma(symbols)[n])

----------------------------------------------------------------------------
(* ai_financial_advice *)

\* faulty variant: the fallback is the bare query
AiEcho(query) == PyStr(query)

\* lines 52 and 54, and the default of line 50
AiFallback(query) == PyStr(AiPrefix \o query)

\* faulty variant: the field is read with the fallback always winning
AiExtractDefault(body, query) == AiFallback(query)

\* line 50 on a body that decoded to a dict
AiExtract(body, query) == IF body.has THEN body.response ELSE AiFallback(query)

\* response.json().get(...) raises: the body is no JSON (JSONDecodeError) or
\* the decoded value has no get (AttributeError)
AiDecodeRaises(body) == body.json # "object"

\* lines 45-54: the value returned when the POST ends with out
AiResult(query, out) ==
    IF out.kind = "raise" THEN AiFallback(query)
    ELSE IF out.status = 200
         THEN IF AiDecodeRaises(out.body) THEN AiFallback(query)
              ELSE AiExtract(out.body, query)
         ELSE AiFallback(query)

\* faulty variant: a POST that raised is sent again
AiRetryOnRaise(out) == IF out.kind = "raise" THEN "post" ELSE "done"

\* every branch after the POST returns
AiAfterPost(out) == "done"

----------------------------------------------------------------------------
(* The state machine. *)

Init ==
    /\ pc = "idle"
    /\ handler = "none"
    /\ arg = <<>>
    /\ idx = 0
    /\ portfolio_data = <<>>
    /\ fetched = <<>>
    /\ fetch_failed = FALSE
    /\ posts = 0
    /\ response = NoResponse
    /\ result = PyNone

\* get_stock_data(symbol), the fetch ending with out
GetStockData(symbol, out) ==
    /\ pc = "idle"
    /\ pc' = "done"
    /\ handler' = "get_stock_data"
    /\ arg' = symbol
    /\ fetched' = <<Fetch(symbol, out)>>
    /\ fetch_failed' = out.failed
    /\ result' = StockResult(symbol, out)
    /\ UNCHANGED <<idx, portfolio_data, posts, response>>

\* analyze_portfolio(symbols) up to the loop
AnalyzePortfolio(symbols) ==
    /\ pc = "idle"
    /\ pc' = "loop"
    /\ handler' = "analyze_portfolio"
    /\ arg' = symbols
    /\ UNCHANGED <<idx, portfolio_data, fetched, fetch_failed, posts, response, result>>

\* one iteration of the loop of lines 21-30, the fetch ending with out
PortfolioFetch(out) ==
    /\ pc = "loop"
    /\ idx < Len(SplitComma(arg))
    /\ LET symbol == SymbolAt(arg, idx + 1)
       IN  /\ fetched' = Append(fetched, Fetch(symbol, out))
           /\ fetch_failed' = out.failed
           /\ IF out.kind = "raise"
              THEN /\ result' = PortfolioError(portfolio_data, out.msg)
                   /\ pc' = "done"
                   /\ UNCHANGED <<idx, portfolio_data>>
              ELSE /\ portfolio_data' = Store(portfolio_data, symbol, out.data)
                   /\ idx' = idx + 1
                   /\ UNCHANGED <<pc, result>>
    /\ UNCHANGED <<handler, arg, posts, response>>

\* lines 32-38, once the loop is over
PortfolioFormat ==
    /\ pc = "loop"
    /\ idx = Len(SplitComma(arg))
    /\ result' = Summary(portfolio_data)
    /\ pc' = "done"
    /\ UNCHANGED <<handler, arg, idx, portfolio_data, fetched, fetch_failed, posts, response>>

\* ai_financial_advice(query) up to the POST
AiFinancialAdvice(query) ==
    /\ pc = "idle"
    /\ pc' = "post"
    /\ handler' = "ai_financial_advice"
    /\ arg' = query
    /\ UNCHANGED <<idx, portfolio_data, fetched, fetch_failed, posts, response, result>>

\* the POST of line 45 ending with out, and lines 49-54
AiPost(out) ==
    /\ pc = "post"
    /\ posts < MaxPosts
    /\ posts' = posts + 1
    /\ response' = out
    /\ result' = AiResult(arg, out)
    /\ pc' = AiAfterPost(out)
    /\ UNCHANGED <<handler, arg, idx, portfolio_data, fetched, fetch_failed>>

\* the handler has returned; the interface is ready for the next click
Return ==
    /\ pc = "done"
    /\ pc' = "idle"
    /\ handler' = "none"
    /\ arg' = <<>>
    /\ idx' = 0
    /\ portfolio_data' = <<>>
    /\ fetched' = <<>>
    /\ fetch_failed' = FALSE
    /\ posts' = 0
    /\ response' = NoResponse
    /\ result' = PyNone

Next ==
    \/ \E symbol \in StockSymbols, out \in QuoteOutcomes : GetStockData(symbol, out)
    \/ \E symbols \in PortfolioInputs : AnalyzePortfolio(symbols)
    \/ \E out \in FetchOutcomes : PortfolioFetch(out)
    \/ PortfolioFormat
    \/ \E query \in Queries : AiFinancialAdvice(query)
    \/ \E out \in PostOutcomes : AiPost(out)
    \/ Return

Spec == Init /\ [][Next]_vars

----------------------------------------------------------------------------
(* Vocabulary of the properties. *)

Done(h) == pc = "done" /\ handler = h

\* the fetches that gave a non-empty frame
NonEmpty == {j \in 1..Len(fetched) : fetched[j].kind = "data" /\ fetched[j].data # <<>>}
NoFetchRaised == \A j \in 1..Len(fetched) : fetched[j].kind = "data"

Max(S) == CHOOSE x \in S : \A y \in S : y <= x
Min(S) == CHOOSE x \in S : \A y \in S : x <= y
FetchesOf(symbol) == {j \in NonEmpty : fetched[j].symbol = symbol}

\* the lines of the returned text; a text ending in "\n" has a last, empty one
ResultLines == SplitAt(result.v, "\n")
\* the lines after the header and the separator
SummaryCount == Len(ResultLines) - 3

\* the dict a run builds from the given fetches alone
RECURSIVE Replay(_)
Replay(fs) ==
    IF fs = <<>> THEN <<>>
    ELSE LET f == fs[Len(fs)]
         IN  DictSet(Replay(SubSeq(fs, 1, Len(fs) - 1)), f.symbol, Entry(f.data))

\* the POST failed: it raised, the status is not 200, or the body is no JSON
AiFailed ==
    \/ response.kind = "raise"
    \/ response.kind = "response" /\ response.status # 200
    \/ response.kind = "response" /\ response.status = 200
           /\ response.body.json = "invalid"

----------------------------------------------------------------------------
(* The claims. *)

\* C1: every handler returns a string, whatever its input and whatever the
\* outcome of its external call.
C1_ReturnsString == pc = "done" => result.t = "str"

\* C2 as stated: when the POST raises, answers with a status other than 200
\* or carries a body that is no JSON, ai_financial_advice(q) returns exactly q.
C2_EchoesQueryUnchanged ==
    (Done("ai_financial_advice") /\ AiFailed) => result = PyStr(arg)

\* C2 amended: in those cases ai_financial_advice(q) returns the text
\* "AI Response: " followed by q, and nothing else.
C2_EchoesQueryWithPrefix ==
    (Done("ai_financial_advice") /\ AiFailed) => result = PyStr(AiPrefix \o arg)

C2_Witness ==
    /\ Done("ai_financial_advice")
    /\ response.kind = "response" /\ response.status = 500
    /\ arg = <<"g", "?">>
    /\ result = PyStr(AiPrefix \o <<"g", "?">>)

\* C3 as stated: when every element gives a non-empty series and no fetch
\* raises, the summary has as many lines as the input list has elements.
C3_LinePerElement ==
    (Done("analyze_portfolio") /\ NoFetchRaised /\ NonEmpty = 1..Len(fetched))
        => SummaryCount = Count(arg, ",") + 1

\* C3 amended: under the same conditions the summary has as many lines as
\* the input list has distinct elements after trimming.
C3_LinePerDistinctSymbol ==
    (Done("analyze_portfolio") /\ NoFetchRaised /\ NonEmpty = 1..Len(fetched))
        => /\ Len(fetched) = Count(arg, ",") + 1
           /\ SummaryCount = Cardinality({fetched[j].symbol : j \in 1..Len(fetched)})

C3_Witness ==
    /\ Done("analyze_portfolio")
    /\ arg = <<"A", ",", " ", "A", " ">>
    /\ NonEmpty = {1, 2}
    /\ SummaryCount = 1

C5_RaiseDiscardsSummary ==
    /\ \A j \in 1..(Len(fetched) - 1) : fetched[j].kind # "raise"
    /\ (handler = "analyze_portfolio" /\ ~NoFetchRaised)
           => /\ pc = "done"
              /\ Len(fetched) = idx + 1
              /\ result = PyStr(PortfolioErrorPrefix \o fetched[Len(fetched)].msg)
              /\ ~Contains(result.v, PortfolioHeader)
              /\ ~Contains(result.v, PortfolioSeparator)
              /\ \A a \in 1..Len(portfolio_data) :
                     ~Contains(result.v, SummaryLine(portfolio_data[a]))

C5_Witness ==
    /\ Done("analyze_portfolio")
    /\ Len(SplitComma(arg)) = 3
    /\ Len(fetched) = 2
    /\ fetched[2].kind = "raise" /\ fetched[2].msg # <<>>
    /\ Len(portfolio_data) = 1

\* C6: a fetch that gives an empty series adds no line and no error: the
\* result is the summary of the run on the other fetches alone, and a symbol
\* all of whose fetches were empty heads no line.
C6_EmptySeriesSkipped ==
    (Done("analyze_portfolio") /\ NoFetchRaised)
        => /\ result = Summary(Replay(SelectSeq(fetched, LAMBDA f : f.data # <<>>)))
           /\ StartsWith(result.v, PortfolioHeader \o PortfolioSeparator)
           /\ \A j \in 1..Len(fetched) :
                  FetchesOf(fetched[j].symbol) = {}
                      => \A n \in 3..Len(ResultLines) :
                             ~StartsWith(ResultLines[n],
                                         fetched[j].symbol \o <<":", " ", "$">>)

C6_Witness ==
    /\ Done("analyze_portfolio")
    /\ Len(fetched) = 3
    /\ NonEmpty = {1, 3}
    /\ fetched[2].symbol = <<"B">>
    /\ fetched[1].symbol = <<"A">> /\ fetched[3].symbol = <<>>
    /\ SummaryCount = 2

\* C7: on status 200 with a JSON object, ai_financial_advice(q) returns the
\* value of the 'response' field when the object has one, and otherwise
\* "AI Response: " followed by q.
C7_ExtractsResponseField ==
    (Done("ai_financial_advice") /\ response.kind = "response"
         /\ response.status = 200 /\ response.body.json = "object")
        => IF response.body.has
           THEN result = response.body.response
           ELSE /\ result = PyStr(AiPrefix \o arg)
                /\ Contains(result.v, arg)

C7_Witness ==
    /\ Done("ai_financial_advice")
    /\ response.status = 200 /\ response.body.json = "object" /\ response.body.has
    /\ arg = <<"g">>
    /\ result = PyStr(<<"D", "i", "v", "e", "r", "s", "i", "f", "y", ".">>)

\* C8: every entry holds the last close, the last close less the first, and
\* that difference over the first close times 100, of the symbol's latest
\* non-empty series; 100 -> 110 is rendered "+10.00" and one row "+0.00".
C8_EntryArithmetic ==
    handler = "analyze_portfolio"
        => \A a \in 1..Len(portfolio_data) :
               LET item == portfolio_data[a]
                   data == fetched[Max(FetchesOf(item.key))].data
                   first == data[1]
                   last == data[Len(data)]
                   line == SummaryLine(item)
               IN  /\ item.val.current_price = last
                   /\ item.val.change = last - first
                   /\ item.val.change_pct.num * first
                          = (last - first) * 100 * item.val.change_pct.den
                   /\ item.val.change_pct.den > 0
                   /\ (first = 10000 /\ last = 11000)
                          => line = item.key \o <<":", " ", "$", "1", "1", "0", ".", "0", "0", " ",
                                                  "(", "+", "1", "0", ".", "0", "0", ",", " ",
                                                  "+", "1", "0", ".", "0", "0", "%", ")", "\n">>
                   /\ Len(data) = 1
                          => Contains(line, <<"(", "+", "0", ".", "0", "0", ",", " ",
                                              "+", "0", ".", "0", "0", "%", ")", "\n">>)
                   /\ (Done("analyze_portfolio") /\ NoFetchRaised)
                          => ResultLines[2 + a] \o <<"\n">> = line

C8_Witness ==
    /\ Done("analyze_portfolio")
    /\ Len(fetched) = 2
    /\ fetched[1].data = <<10000, 11000>>
    /\ fetched[2].data = <<10000>>
    /\ Len(portfolio_data) = 2
    /\ Contains(result.v, <<"$", "1", "1", "0", ".", "0", "0", " ", "(", "+", "1", "0", ".", "0", "0", ",",
                            " ", "+", "1", "0", ".", "0", "0", "%", ")">>)
    /\ Contains(result.v, <<"$", "1", "0", "0", ".", "0", "0", " ", "(", "+", "0", ".", "0", "0", ",",
                            " ", "+", "0", ".", "0", "0", "%", ")">>)

\* C9: an invocation of ai_financial_advice sends exactly one POST: none
\* before the call, one once it has returned, never a second.
C9_OnePost ==
    /\ posts <= 1
    /\ pc = "post" => posts = 0
    /\ Done("ai_financial_advice") => posts = 1
    /\ handler # "ai_financial_advice" => posts = 0

C9_Witness ==
    /\ Done("ai_financial_advice")
    /\ response.kind = "raise"
    /\ posts = 1

\* C10: when no fetch raises, the summary has one line per distinct trimmed
\* symbol with a non-empty fetch, in the order of the symbols' first such
\* fetch, each showing the values of the symbol's last non-empty fetch.
C10_OneLinePerSymbolInFirstOrder ==
    (Done("analyze_portfolio") /\ NoFetchRaised)
        => /\ \A j \in 1..Len(fetched) :
                  LET sym == fetched[j].symbol
                  IN  /\ Contains(SplitComma(arg)[j], sym)
                      /\ sym # <<>> => ~IsSpace(sym[1]) /\ ~IsSpace(sym[Len(sym)])
           /\ Len(portfolio_data) = Cardinality({fetched[j].symbol : j \in NonEmpty})
           /\ SummaryCount = Len(portfolio_data)
           /\ \A a \in 1..Len(portfolio_data) :
                  LET item == portfolio_data[a]
                  IN  /\ FetchesOf(item.key) # {}
                      /\ item.val = Entry(fetched[Max(FetchesOf(item.key))].data)
                      /\ ResultLines[2 + a] \o <<"\n">> = SummaryLine(item)
                      /\ \A b \in (a + 1)..Len(portfolio_data) :
                             Min(FetchesOf(item.key))
                                 < Min(FetchesOf(portfolio_data[b].key))

C10_Witness ==
    /\ Done("analyze_portfolio")
    /\ arg = <<"A", ",", "B", ",", " ", "A", " ">>
    /\ NonEmpty = {1, 2, 3}
    /\ fetched[1].data = <<10000>>
    /\ fetched[3].data = <<10000, 11000>>
    /\ Len(portfolio_data) = 2
    /\ portfolio_data[1].key = <<"A">>
    /\ portfolio_data[1].val.current_price = 11000
    /\ portfolio_data[2].key = <<"B">>

====
